---------------------------- MODULE Spec2Model ----------------------------
(***************************************************************************)
(* State-machine model of class CriticalVectors (src/dracula-cv.py):       *)
(* construction, split_text, compute_embeddings, select_chunks with its    *)
(* kmeans (FAISS and in-memory) and agglomerative selections, and          *)
(* get_relevant_chunks.                                                    *)
(*                                                                         *)
(* Strings are sequences of one-character strings.  Chunk indices keep     *)
(* Python's 0-based numbering; sequences are 1-based, so chunk i is        *)
(* chunks[i + 1].  Embedding vectors have one coordinate (an integer);     *)
(* a centroid is the rational sum/cnt, and distances to one centroid are   *)
(* compared through |cnt * x - sum|.                                       *)
(***************************************************************************)
EXTENDS Integers, Sequences, FiniteSets, TLC

VARIABLES
    pc,                \* position in the program
    cfg,               \* the attributes set by __init__
    text,              \* the argument of get_relevant_chunks / split_text
    chunks,            \* the list returned by split_text
    first_part,        \* get_relevant_chunks: first_part
    last_part,         \* get_relevant_chunks: last_part
    err,               \* message of the exception raised, or "none"
    embeddings,        \* the array returned by compute_embeddings
    num_clusters,      \* select_chunks: the resolved num_clusters
    centroids,         \* kmeans.cluster_centers_ / kmeans.centroids
    labels,            \* kmeans.labels_ / clustering.fit_predict(...)
    cluster_idx,       \* loop variable of "for cluster_idx in range(...)"
    sorted_indices,    \* sorted_indices of the current cluster
    selected,          \* selected of the current cluster
    selected_indices,  \* selected_indices before the duplicates are removed
    unique_indices,    \* selected_indices after list(dict.fromkeys(...))
    result             \* the value returned by get_relevant_chunks / select_chunks

vars == <<pc, cfg, text, chunks, first_part, last_part, err, embeddings,
          num_clusters, centroids, labels, cluster_idx, sorted_indices,
          selected, selected_indices, unique_indices, result>>

---------------------------------------------------------------------------
(* Bounds of the inputs.                                                   *)

MaxTextLen == 4     \* texts of up to MaxTextLen characters are enumerated
MaxChunks == 3      \* select_chunks is called with 1..MaxChunks chunks
MaxQuota == 3       \* chunks_per_cluster ranges over 0..MaxQuota
MaxCoord == 1       \* embedding coordinates range over 0..MaxCoord

Alphabet == {"a", ".", " ", "\n"}
Coords == 0..MaxCoord

---------------------------------------------------------------------------
(* Strings.                                                                *)

IsSpace(c) == c \in {" ", "\n"}

RECURSIVE LStrip(_)
LStrip(s) ==
    IF s = <<>> THEN s
    ELSE IF IsSpace(Head(s)) THEN LStrip(Tail(s)) ELSE s

RECURSIVE RStrip(_)
RStrip(s) ==
    IF s = <<>> THEN s
    ELSE IF IsSpace(s[Len(s)]) THEN RStrip(SubSeq(s, 1, Len(s) - 1)) ELSE s

\* str.strip()
Strip(s) == RStrip(LStrip(s))

\* text.split('\n\n'): the pieces between non-overlapping separators, left to right
RECURSIVE SplitBlankLines(_, _)
SplitBlankLines(s, cur) ==
    IF s = <<>> THEN <<cur>>
    ELSE IF Len(s) >= 2 /\ s[1] = "\n" /\ s[2] = "\n"
         THEN <<cur>> \o SplitBlankLines(SubSeq(s, 3, Len(s)), <<>>)
         ELSE SplitBlankLines(Tail(s), Append(cur, Head(s)))

\* nltk sent_tokenize: a sentence ends at a period followed by whitespace and a
\* further token; the whitespace between sentences and after the last one is
\* dropped, the whitespace before the first one is kept.
RECURSIVE SentTokenize(_, _)
SentTokenize(s, cur) ==
    IF s = <<>> THEN (IF RStrip(cur) = <<>> THEN <<>> ELSE <<RStrip(cur)>>)
    ELSE IF /\ Head(s) = "."
            /\ Len(s) >= 2
            /\ IsSpace(s[2])
            /\ LStrip(Tail(s)) # <<>>
         THEN <<Append(cur, ".")>> \o SentTokenize(LStrip(Tail(s)), <<>>)
         ELSE SentTokenize(Tail(s), Append(cur, Head(s)))

\* len(word_tokenize(sentence)): the whitespace-separated words, a final
\* period that closes a word counting as a token of its own
NumTokens(s) ==
    LET t == Strip(s)
        words == Cardinality({i \in 1..Len(t) :
                     ~IsSpace(t[i]) /\ (i = 1 \/ IsSpace(t[i - 1]))})
        period == IF /\ Len(t) >= 2
                     /\ t[Len(t)] = "."
                     /\ ~IsSpace(t[Len(t) - 1])
                     /\ t[Len(t) - 1] # "."
                  THEN 1 ELSE 0
    IN words + period

---------------------------------------------------------------------------
(* split_text.                                                             *)

\* the "for sentence in sentences" loop and the trailing append
RECURSIVE PackSentences(_, _, _, _, _)
PackSentences(sentences, acc, current_chunk, current_tokens, max_tokens) ==
    IF sentences = <<>>
    THEN IF current_chunk # <<>> THEN Append(acc, Strip(current_chunk)) ELSE acc
    ELSE LET sentence == Head(sentences)
             num_tokens == NumTokens(sentence)
         IN IF current_tokens + num_tokens <= max_tokens
            THEN PackSentences(Tail(sentences), acc,
                               current_chunk \o <<" ">> \o sentence,
                               current_tokens + num_tokens, max_tokens)
            ELSE PackSentences(Tail(sentences),
                               IF current_chunk # <<>>
                               THEN Append(acc, Strip(current_chunk)) ELSE acc,
                               sentence, num_tokens, max_tokens)

\* the "for para in paragraphs" loop and the trailing append
RECURSIVE PackParagraphs(_, _, _, _)
PackParagraphs(paragraphs, acc, current_chunk, chunk_size) ==
    IF paragraphs = <<>>
    THEN IF current_chunk # <<>> THEN Append(acc, Strip(current_chunk)) ELSE acc
    ELSE LET para == Head(paragraphs)
         IN IF Len(current_chunk) + Len(para) <= chunk_size
            THEN PackParagraphs(Tail(paragraphs), acc,
                                current_chunk \o <<"\n", "\n">> \o para, chunk_size)
            ELSE PackParagraphs(Tail(paragraphs),
                                IF current_chunk # <<>>
                                THEN Append(acc, Strip(current_chunk)) ELSE acc,
                                para, chunk_size)

TextError == "text must be a non-empty string."
MethodError == "Invalid method for splitting text."

\* split_text(text, method, max_tokens_per_chunk) on an object whose
\* chunk_size attribute is chunk_size: the exception raised, or the chunks
SplitText(t, method, max_tokens_per_chunk, chunk_size) ==
    IF Strip(t) = <<>>
    THEN [err |-> TextError, chunks |-> <<>>]
    ELSE IF method = "sentences"
    THEN [err |-> "none",
          chunks |-> PackSentences(SentTokenize(t, <<>>), <<>>, <<>>, 0,
                                   max_tokens_per_chunk)]
    ELSE IF method = "paragraphs"
    THEN [err |-> "none",
          chunks |-> PackParagraphs(SplitBlankLines(t, <<>>), <<>>, <<>>, chunk_size)]
    ELSE [err |-> MethodError, chunks |-> <<>>]

---------------------------------------------------------------------------
(* __init__.                                                               *)

ChunkSizeError == "chunk_size must be a positive integer."
StrategyError == "strategy must be one of ['kmeans', 'agglomerative']."
NumClustersError == "num_clusters must be a positive integer or 'auto'."
ChunksPerClusterError == "chunks_per_cluster must be a positive integer."
InitErrors == {ChunkSizeError, StrategyError, NumClustersError, ChunksPerClusterError}

\* num_clusters is 'auto' or an integer
Auto == [kind |-> "auto", value |-> 0]
Fixed(k) == [kind |-> "int", value |-> k]

\* the exception __init__ raises for these arguments, or "none"
InitCheck(args) ==
    IF args.chunk_size <= 0 THEN ChunkSizeError
    ELSE IF args.strategy \notin {"kmeans", "agglomerative"} THEN StrategyError
    ELSE IF args.num_clusters # Auto /\ args.num_clusters.value <= 0 THEN NumClustersError
    ELSE IF args.chunks_per_cluster <= 0 THEN ChunksPerClusterError
    ELSE "none"

\* the values the constructor's arguments are drawn from
ChunkSizeValues == {0, 1, 2}
StrategyValues == {"kmeans", "agglomerative", "spectral"}
NumClustersValues == {Auto, Fixed(0), Fixed(1), Fixed(2)}
ChunksPerClusterValues == 0..MaxQuota
SplitMethodValues == {"sentences", "paragraphs", "words"}
MaxTokensValues == {0, 2}

Arguments ==
    [chunk_size : ChunkSizeValues,
     strategy : StrategyValues,
     num_clusters : NumClustersValues,
     chunks_per_cluster : ChunksPerClusterValues,
     split_method : SplitMethodValues,
     max_tokens_per_chunk : MaxTokensValues,
     use_faiss : BOOLEAN]

\* the attributes before any object is constructed: the defaults of __init__
Defaults ==
    [chunk_size |-> 500, strategy |-> "kmeans", num_clusters |-> Auto,
     chunks_per_cluster |-> 1, split_method |-> "sentences",
     max_tokens_per_chunk |-> 512, use_faiss |-> FALSE]

---------------------------------------------------------------------------
(* Python lists.                                                           *)

Range(s) == {s[i] : i \in 1..Len(s)}

\* seq[i] for a Python index i, negative indices counting from the end
PyIndex(s, i) == IF i < 0 THEN s[Len(s) + i + 1] ELSE s[i + 1]

\* list(dict.fromkeys(s)): the first occurrence of every element, in order
RECURSIVE FromKeys(_, _)
FromKeys(s, acc) ==
    IF s = <<>> THEN acc
    ELSE FromKeys(Tail(s), IF Head(s) \in Range(acc) THEN acc ELSE Append(acc, Head(s)))

\* RemoveDuplicates with the removal left out
KeepDuplicates(s) == s

RemoveDuplicates(s) == FromKeys(s, <<>>)

\* [chunks[idx] for idx in indices]
Resolve(cs, indices) == [i \in 1..Len(indices) |-> PyIndex(cs, indices[i])]

FirstPart(cs) == PyIndex(cs, 0)
\* LastPart reading the wrong end of the list
LastPartFromFront(cs) == PyIndex(cs, 0)

LastPart(cs) == PyIndex(cs, -1)

---------------------------------------------------------------------------
(* select_chunks: the number of clusters.                                  *)

\* int(np.ceil(np.sqrt(n)))
CeilSqrt(n) == CHOOSE r \in 0..n : r * r >= n /\ (r = 0 \/ (r - 1) * (r - 1) < n)

Max2(a, b) == IF a >= b THEN a ELSE b
Min2(a, b) == IF a <= b THEN a ELSE b

\* ResolveNumClusters without the min against the number of chunks
ResolveNumClustersUnclamped(setting, num_chunks) ==
    IF setting = Auto THEN Max2(1, CeilSqrt(num_chunks))
    ELSE setting.value

ResolveNumClusters(setting, num_chunks) ==
    IF setting = Auto THEN Max2(1, CeilSqrt(num_chunks))
    ELSE Min2(setting.value, num_chunks)

---------------------------------------------------------------------------
(* Distances, clusterings and nearest-neighbour search.                    *)

Abs(x) == IF x < 0 THEN -x ELSE x

\* a centroid is the rational sum / cnt
Point(x) == [sum |-> x, cnt |-> 1]

\* the distance of coordinate x to centroid c, scaled by c.cnt
Dist(x, c) == Abs(c.cnt * x - c.sum)

RECURSIVE SumOver(_, _)
SumOver(S, emb) ==
    IF S = {} THEN 0
    ELSE LET i == CHOOSE j \in S : TRUE IN emb[i + 1] + SumOver(S \ {i}, emb)

\* np.mean(cluster_embeddings, axis=0)
Mean(S, emb) == [sum |-> SumOver(S, emb), cnt |-> Cardinality(S)]

\* np.where(labels == cluster_idx)[0], as a set
Members(lbl, c) == {i \in 0..(Len(lbl) - 1) : lbl[i + 1] = c}

\* cluster_indices[np.argsort(distances)]: the members in ascending distance
\* to the centroid; argsort leaves the order of equal distances open
RECURSIVE SortedOrders(_, _, _)
SortedOrders(S, emb, c) ==
    IF S = {} THEN {<<>>}
    ELSE LET nearest == {i \in S : \A j \in S : Dist(emb[i + 1], c) <= Dist(emb[j + 1], c)}
         IN UNION {{<<i>> \o rest : rest \in SortedOrders(S \ {i}, emb, c)} : i \in nearest}

\* KMeans(...).fit: every point is labelled with a nearest centre
KMeansLabelings(emb, cents) ==
    {lbl \in [1..Len(emb) -> 0..(Len(cents) - 1)] :
        \A i \in 1..Len(emb) : \A c \in 1..Len(cents) :
            Dist(emb[i], cents[lbl[i] + 1]) <= Dist(emb[i], cents[c])}

\* AgglomerativeClustering(n_clusters=k).fit_predict: exactly k groups
AgglomerativeLabelings(emb, k) ==
    {lbl \in [1..Len(emb) -> 0..(k - 1)] :
        \A c \in 0..(k - 1) : \E i \in 1..Len(emb) : lbl[i] = c}

\* one row of I in "D, I = index.search(centroids, k)": the k nearest points
\* in ascending distance, -1 where the index holds fewer than k points
SearchRow(order, k) == [j \in 1..k |-> IF j <= Len(order) THEN order[j] ELSE -1]

SearchRows(emb, c, k) ==
    {SearchRow(order, k) : order \in SortedOrders(0..(Len(emb) - 1), emb, c)}

\* the rows of I appended one after the other, for every choice the search has
RECURSIVE SearchAll(_, _, _)
SearchAll(emb, cents, k) ==
    IF cents = <<>> THEN {<<>>}
    ELSE {row \o rest : row \in SearchRows(emb, Head(cents), k),
                        rest \in SearchAll(emb, Tail(cents), k)}

---------------------------------------------------------------------------
(* The selection inside one cluster.                                       *)

\* SeedSelected with the test on chunks_per_cluster off by one
SeedSelectedAlwaysExtreme(sorted, chunks_per_cluster) ==
    IF chunks_per_cluster >= 1 /\ Len(sorted) > 1
    THEN <<PyIndex(sorted, 0), PyIndex(sorted, -1)>>
    ELSE <<PyIndex(sorted, 0)>>

\* selected = [sorted_indices[0]], plus sorted_indices[-1] "at the extremes"
SeedSelected(sorted, chunks_per_cluster) ==
    IF chunks_per_cluster > 1 /\ Len(sorted) > 1
    THEN <<PyIndex(sorted, 0), PyIndex(sorted, -1)>>
    ELSE <<PyIndex(sorted, 0)>>

\* the condition of the while loop
MoreNeeded(sorted, sel, chunks_per_cluster) ==
    Len(sel) < chunks_per_cluster /\ Len(sorted) > Len(sel)

\* next_idx = sorted_indices[-len(selected)-1]
NextIdx(sorted, sel) == PyIndex(sorted, -Len(sel) - 1)

\* one pass through the body of the while loop
LoopBody(sorted, sel) ==
    IF NextIdx(sorted, sel) \notin Range(sel) THEN Append(sel, NextIdx(sorted, sel)) ELSE sel

---------------------------------------------------------------------------
(* The operations.                                                         *)

EmbeddingError == "Error computing embeddings"
AgglomerativeError == "Error in Agglomerative Clustering"

NoResult == [selected_chunks |-> <<>>, first_part |-> <<>>, last_part |-> <<>>]

\* CriticalVectors(...): the attributes are set, or ValueError is raised
Construct ==
    /\ pc = "new"
    /\ \E args \in Arguments :
          IF InitCheck(args) = "none"
          THEN /\ cfg' = args
               /\ pc' = "ready"
               /\ err' = err
          ELSE /\ cfg' = cfg
               /\ pc' = "error"
               /\ err' = InitCheck(args)
    /\ UNCHANGED <<text, chunks, first_part, last_part, embeddings, num_clusters,
                   centroids, labels, cluster_idx, sorted_indices, selected,
                   selected_indices, unique_indices, result>>

\* get_relevant_chunks(text), up to the call of compute_embeddings
GetRelevantChunks(t) ==
    /\ pc = "ready"
    /\ text' = t
    /\ LET r == SplitText(t, cfg.split_method, cfg.max_tokens_per_chunk, cfg.chunk_size)
       IN IF r.err # "none"
          THEN /\ pc' = "error"
               /\ err' = r.err
               /\ UNCHANGED <<chunks, first_part, last_part, result>>
          ELSE IF r.chunks = <<>>
          THEN /\ pc' = "done"
               /\ chunks' = r.chunks
               /\ result' = NoResult
               /\ UNCHANGED <<err, first_part, last_part>>
          ELSE /\ pc' = "embed"
               /\ chunks' = r.chunks
               /\ first_part' = FirstPart(r.chunks)
               /\ last_part' = LastPart(r.chunks)
               /\ UNCHANGED <<err, result>>
    /\ UNCHANGED <<cfg, embeddings, num_clusters, centroids, labels, cluster_idx,
                   sorted_indices, selected, selected_indices, unique_indices>>

\* split_text called on its own
SplitTextCall ==
    /\ pc = "split"
    /\ LET r == SplitText(text, cfg.split_method, cfg.max_tokens_per_chunk, cfg.chunk_size)
       IN /\ chunks' = r.chunks
          /\ err' = r.err
          /\ pc' = IF r.err = "none" THEN "done" ELSE "error"
    /\ UNCHANGED <<cfg, text, first_part, last_part, embeddings, num_clusters,
                   centroids, labels, cluster_idx, sorted_indices, selected,
                   selected_indices, unique_indices, result>>

\* compute_embeddings(chunks): one vector per chunk, or the provider fails
ComputeEmbeddings ==
    /\ pc = "embed"
    /\ \/ /\ chunks # <<>>
          /\ \E e \in [1..Len(chunks) -> Coords] : embeddings' = e
          /\ pc' = "select"
          /\ err' = err
       \/ /\ pc' = "error"
          /\ err' = EmbeddingError
          /\ embeddings' = embeddings
    /\ UNCHANGED <<cfg, text, chunks, first_part, last_part, num_clusters, centroids,
                   labels, cluster_idx, sorted_indices, selected, selected_indices,
                   unique_indices, result>>

\* select_chunks: num_clusters is resolved, then the strategy is dispatched
SelectChunks ==
    /\ pc = "select"
    /\ num_clusters' = ResolveNumClusters(cfg.num_clusters, Len(chunks))
    /\ selected_indices' = <<>>
    /\ pc' = "cluster"
    /\ UNCHANGED <<cfg, text, chunks, first_part, last_part, err, embeddings, centroids,
                   labels, cluster_idx, sorted_indices, selected, unique_indices, result>>

\* _select_chunks_kmeans with use_faiss: train, search, append every row of I
ClusterFaiss ==
    /\ pc = "cluster"
    /\ cfg.strategy = "kmeans"
    /\ cfg.use_faiss
    /\ \E cents \in [1..num_clusters -> {Point(x) : x \in Coords}] :
          /\ centroids' = cents
          /\ selected_indices' \in SearchAll(embeddings, cents, cfg.chunks_per_cluster)
    /\ pc' = "dedup"
    /\ UNCHANGED <<cfg, text, chunks, first_part, last_part, err, embeddings,
                   num_clusters, labels, cluster_idx, sorted_indices, selected,
                   unique_indices, result>>

\* _select_chunks_kmeans without FAISS: KMeans(...).fit(embeddings)
ClusterKMeans ==
    /\ pc = "cluster"
    /\ cfg.strategy = "kmeans"
    /\ ~cfg.use_faiss
    /\ \E cents \in [1..num_clusters -> {Point(x) : x \in Coords}] :
          \E lbl \in KMeansLabelings(embeddings, cents) :
             /\ centroids' = cents
             /\ labels' = lbl
    /\ cluster_idx' = 0
    /\ pc' = "for"
    /\ UNCHANGED <<cfg, text, chunks, first_part, last_part, err, embeddings,
                   num_clusters, sorted_indices, selected, selected_indices,
                   unique_indices, result>>

\* _select_chunks_agglomerative: AgglomerativeClustering(...).fit_predict, which
\* refuses fewer than two samples
ClusterAgglomerative ==
    /\ pc = "cluster"
    /\ cfg.strategy = "agglomerative"
    /\ IF Len(embeddings) < 2
       THEN /\ pc' = "error"
            /\ err' = AgglomerativeError
            /\ UNCHANGED <<labels, cluster_idx>>
       ELSE /\ \E lbl \in AgglomerativeLabelings(embeddings, num_clusters) : labels' = lbl
            /\ cluster_idx' = 0
            /\ pc' = "for"
            /\ err' = err
    /\ UNCHANGED <<cfg, text, chunks, first_part, last_part, embeddings, num_clusters,
                   centroids, sorted_indices, selected, selected_indices,
                   unique_indices, result>>

\* the centroid the selection measures cluster c against
Centroid(c) ==
    IF cfg.strategy = "kmeans" THEN centroids[c + 1]
    ELSE Mean(Members(labels, c), embeddings)

\* for cluster_idx in range(num_clusters): the range is exhausted
ForDone ==
    /\ pc = "for"
    /\ cluster_idx = num_clusters
    /\ pc' = "dedup"
    /\ UNCHANGED <<cfg, text, chunks, first_part, last_part, err, embeddings,
                   num_clusters, centroids, labels, cluster_idx, sorted_indices,
                   selected, selected_indices, unique_indices, result>>

\* if len(cluster_indices) == 0: continue
SkipEmptyCluster ==
    /\ pc = "for"
    /\ cluster_idx < num_clusters
    /\ Members(labels, cluster_idx) = {}
    /\ cluster_idx' = cluster_idx + 1
    /\ UNCHANGED <<pc, cfg, text, chunks, first_part, last_part, err, embeddings,
                   num_clusters, centroids, labels, sorted_indices, selected,
                   selected_indices, unique_indices, result>>

\* distances, sorted_indices, the closest member and the farthest one
SortCluster ==
    /\ pc = "for"
    /\ cluster_idx < num_clusters
    /\ Members(labels, cluster_idx) # {}
    /\ \E order \in SortedOrders(Members(labels, cluster_idx), embeddings,
                                 Centroid(cluster_idx)) :
          /\ sorted_indices' = order
          /\ selected' = SeedSelected(order, cfg.chunks_per_cluster)
    /\ pc' = "while"
    /\ UNCHANGED <<cfg, text, chunks, first_part, last_part, err, embeddings,
                   num_clusters, centroids, labels, cluster_idx, selected_indices,
                   unique_indices, result>>

\* one iteration of "while len(selected) < chunks_per_cluster and ..."
WhileBody ==
    /\ pc = "while"
    /\ MoreNeeded(sorted_indices, selected, cfg.chunks_per_cluster)
    /\ selected' = LoopBody(sorted_indices, selected)
    /\ UNCHANGED <<pc, cfg, text, chunks, first_part, last_part, err, embeddings,
                   num_clusters, centroids, labels, cluster_idx, sorted_indices,
                   selected_indices, unique_indices, result>>

\* the while condition fails: selected_indices.extend(selected), next cluster
WhileExit ==
    /\ pc = "while"
    /\ ~MoreNeeded(sorted_indices, selected, cfg.chunks_per_cluster)
    /\ selected_indices' = selected_indices \o selected
    /\ cluster_idx' = cluster_idx + 1
    /\ pc' = "for"
    /\ UNCHANGED <<cfg, text, chunks, first_part, last_part, err, embeddings,
                   num_clusters, centroids, labels, sorted_indices, selected,
                   unique_indices, result>>

\* duplicates removed, indices resolved to chunks, and the return of
\* select_chunks and get_relevant_chunks
ReturnSelected ==
    /\ pc = "dedup"
    /\ unique_indices' = RemoveDuplicates(selected_indices)
    /\ result' = [selected_chunks |-> Resolve(chunks, RemoveDuplicates(selected_indices)),
                  first_part |-> first_part,
                  last_part |-> last_part]
    /\ pc' = "done"
    /\ UNCHANGED <<cfg, text, chunks, first_part, last_part, err, embeddings,
                   num_clusters, centroids, labels, cluster_idx, sorted_indices,
                   selected, selected_indices>>

---------------------------------------------------------------------------
(* Specifications.                                                         *)

\* the texts get_relevant_chunks is called with
SampleTexts ==
    { <<>>, <<" ">>, <<"\n", "\n">>, <<"a">>, <<"\n", "\n", "a">>,
      <<"a", ".", " ", "b">>,
      <<"a", ".", " ", "b", ".", " ", "c">>,
      <<"a", "\n", "\n", "b">>,
      <<"a", "\n", "\n", "b", "\n", "\n", "c">> }

\* all texts of up to n characters
Strings(n) == UNION {[1..k -> Alphabet] : k \in 0..n}

\* n chunks with different texts
Letters == <<"a", "b", "c", "d", "e", "f">>
ChunksOf(n) == [i \in 1..n |-> <<Letters[i]>>]

Idle ==
    /\ text = <<>>
    /\ chunks = <<>>
    /\ first_part = <<>>
    /\ last_part = <<>>
    /\ err = "none"
    /\ embeddings = <<>>
    /\ num_clusters = 0
    /\ centroids = <<>>
    /\ labels = <<>>
    /\ cluster_idx = 0
    /\ sorted_indices = <<>>
    /\ selected = <<>>
    /\ selected_indices = <<>>
    /\ unique_indices = <<>>
    /\ result = NoResult

\* the whole program: construction, then one call of get_relevant_chunks
Init ==
    /\ pc = "new"
    /\ cfg = Defaults
    /\ Idle

Next ==
    \/ Construct
    \/ \E t \in SampleTexts : GetRelevantChunks(t)
    \/ ComputeEmbeddings
    \/ SelectChunks
    \/ ClusterFaiss
    \/ ClusterKMeans
    \/ ClusterAgglomerative
    \/ ForDone
    \/ SkipEmptyCluster
    \/ SortCluster
    \/ WhileBody
    \/ WhileExit
    \/ ReturnSelected

Spec == Init /\ [][Next]_vars

\* select_chunks(chunks, embeddings) on a constructed object, with up to
\* maxn chunks
SelectInputs(maxn) ==
    /\ pc = "select"
    /\ \E s \in {"kmeans", "agglomerative"}, k \in {Auto, Fixed(1), Fixed(2)},
          q \in 1..MaxQuota, f \in BOOLEAN :
          cfg = [Defaults EXCEPT !.strategy = s, !.num_clusters = k,
                                 !.chunks_per_cluster = q, !.use_faiss = f]
    /\ \E n \in 1..maxn :
          /\ chunks = ChunksOf(n)
          /\ embeddings \in [1..n -> Coords]
    /\ text = <<>>
    /\ first_part = <<>>
    /\ last_part = <<>>
    /\ err = "none"
    /\ num_clusters = 0
    /\ centroids = <<>>
    /\ labels = <<>>
    /\ cluster_idx = 0
    /\ sorted_indices = <<>>
    /\ selected = <<>>
    /\ selected_indices = <<>>
    /\ unique_indices = <<>>
    /\ result = NoResult

SelectInit == SelectInputs(MaxChunks)

SelectNext ==
    \/ SelectChunks
    \/ ClusterFaiss
    \/ ClusterKMeans
    \/ ClusterAgglomerative
    \/ ForDone
    \/ SkipEmptyCluster
    \/ SortCluster
    \/ WhileBody
    \/ WhileExit
    \/ ReturnSelected

SelectSpec == SelectInit /\ [][SelectNext]_vars

\* the same calls with one chunk more, where a cluster can hold four members
LargeSelectInit == SelectInputs(MaxChunks + 1)

LargeSelectSpec == LargeSelectInit /\ [][SelectNext]_vars

\* split_text(text, method, max_tokens_per_chunk) on a constructed object
SplitInit ==
    /\ pc = "split"
    /\ text \in Strings(MaxTextLen)
    /\ \E c \in {1, 2}, m \in SplitMethodValues, t \in {0, 1, 2} :
          cfg = [Defaults EXCEPT !.chunk_size = c, !.split_method = m,
                                 !.max_tokens_per_chunk = t]
    /\ chunks = <<>>
    /\ first_part = <<>>
    /\ last_part = <<>>
    /\ err = "none"
    /\ embeddings = <<>>
    /\ num_clusters = 0
    /\ centroids = <<>>
    /\ labels = <<>>
    /\ cluster_idx = 0
    /\ sorted_indices = <<>>
    /\ selected = <<>>
    /\ selected_indices = <<>>
    /\ unique_indices = <<>>
    /\ result = NoResult

SplitNext == SplitTextCall

SplitSpec == SplitInit /\ [][SplitNext]_vars

---------------------------------------------------------------------------
(* Properties.                                                             *)

\* a configuration all of whose values are legal
ValidConfig(c) ==
    /\ InitCheck(c) = "none"
    /\ c.split_method \in {"sentences", "paragraphs"}
    /\ c.max_tokens_per_chunk > 0

InMemory == cfg.strategy = "agglomerative" \/ ~cfg.use_faiss

NoRepeats(s) == \A i, j \in 1..Len(s) : i # j => s[i] # s[j]

\* the positions of s that hold the first occurrence of their element
FirstPositions(s) == {p \in 1..Len(s) : \A r \in 1..(p - 1) : s[r] # s[p]}

\* u lists the first occurrences of s, in the order of s
FirstSeenOrder(s, u) ==
    /\ Len(u) = Cardinality(FirstPositions(s))
    /\ \A i \in 1..Len(u) :
          \E p \in FirstPositions(s) :
             /\ s[p] = u[i]
             /\ Cardinality({r \in FirstPositions(s) : r < p}) = i - 1

NonEmptyClusters == {c \in 0..(num_clusters - 1) : Members(labels, c) # {}}

\* C1: with a valid configuration, get_relevant_chunks called with an empty or
\* whitespace-only text returns ([], "", "") and raises nothing.
C1_BlankTextReturnsEmptyTriple ==
    (pc \notin {"new", "ready"} /\ err \notin InitErrors
        /\ ValidConfig(cfg) /\ Strip(text) = <<>>)
    => (pc = "done" /\ err = "none" /\ result = NoResult)

\* C2: whenever get_relevant_chunks returns for a text that splits into at least
\* one chunk, first_chunk is chunk 0 and last_chunk is chunk N-1 of the split.
C2_BoundaryChunks ==
    (pc = "done" /\ chunks # <<>>)
    => /\ chunks = SplitText(text, cfg.split_method, cfg.max_tokens_per_chunk,
                             cfg.chunk_size).chunks
       /\ result.first_part = chunks[1]
       /\ result.last_part = chunks[Len(chunks)]

\* C2 witness: a call returned for a text of several chunks whose first and last
\* chunk differ, and the selection holds the first chunk too.
C2_Witness ==
    /\ pc = "done"
    /\ Len(chunks) >= 2
    /\ chunks[1] # chunks[Len(chunks)]
    /\ chunks[1] \in Range(result.selected_chunks)

C4_ClosestOnly ==
    (pc = "done" /\ cfg.chunks_per_cluster = 1 /\ InMemory)
    => /\ Len(unique_indices) = Cardinality(NonEmptyClusters)
       /\ \A c \in NonEmptyClusters :
             LET i == unique_indices[Cardinality({d \in NonEmptyClusters : d < c}) + 1]
             IN /\ i \in Members(labels, c)
                /\ \A j \in Members(labels, c) :
                      Dist(embeddings[i + 1], Centroid(c))
                         <= Dist(embeddings[j + 1], Centroid(c))
       /\ result.selected_chunks = [i \in 1..Len(unique_indices) |->
                                       chunks[unique_indices[i] + 1]]

\* C4 witness: a selection with chunks_per_cluster = 1 returned over two
\* non-empty clusters, one of which has members at different distances.
C4_Witness ==
    /\ pc = "done"
    /\ cfg.chunks_per_cluster = 1
    /\ InMemory
    /\ Cardinality(NonEmptyClusters) = 2
    /\ \E c \in NonEmptyClusters : \E i, j \in Members(labels, c) :
          Dist(embeddings[i + 1], Centroid(c)) < Dist(embeddings[j + 1], Centroid(c))

\* C5: the resolved cluster count is ceil(sqrt(n)) (at least 1) under 'auto'
\* and min(k, n) under a positive integer k, and it lies in 1..n.
C5_ClusterCountBound ==
    pc # "select"
    => LET n == Len(chunks)
           k == num_clusters
       IN /\ 1 <= k
          /\ k <= n
          /\ cfg.num_clusters = Auto => ((k - 1) * (k - 1) < n /\ n <= k * k)
          /\ cfg.num_clusters # Auto =>
                /\ k <= cfg.num_clusters.value
                /\ (k = cfg.num_clusters.value \/ k = n)

\* C5 witness: a call with more clusters configured than there are chunks, and
\* a call under 'auto', have both resolved their cluster count.
C5_Witness ==
    /\ pc = "done"
    /\ \/ cfg.num_clusters = Fixed(2) /\ Len(chunks) = 1 /\ num_clusters = 1
       \/ cfg.num_clusters = Auto /\ Len(chunks) = 3 /\ num_clusters = 2

\* C6: for a text that is not blank, under either method and any budget, every
\* chunk split_text returns is non-empty after trimming.
C6_ChunksNonEmpty ==
    (pc = "done" /\ Strip(text) # <<>>)
    => \A i \in 1..Len(chunks) : Strip(chunks[i]) # <<>>

\* the while loop run to its end: the selection, or stuck when an iteration
\* changes nothing
RECURSIVE RunLoop(_, _, _)
RunLoop(sorted, sel, q) ==
    IF ~MoreNeeded(sorted, sel, q) THEN [stuck |-> FALSE, selected |-> sel]
    ELSE IF LoopBody(sorted, sel) = sel THEN [stuck |-> TRUE, selected |-> sel]
    ELSE RunLoop(sorted, LoopBody(sorted, sel), q)

\* the selections the in-memory branch can make in the clusters c, c+1, ...
RECURSIVE InMemoryRaw(_, _, _, _, _, _)
InMemoryRaw(emb, cents, lbl, c, k, q) ==
    IF c = k THEN {<<>>}
    ELSE IF Members(lbl, c) = {} THEN InMemoryRaw(emb, cents, lbl, c + 1, k, q)
    ELSE LET runs == {RunLoop(order, SeedSelected(order, q), q) :
                         order \in SortedOrders(Members(lbl, c), emb, cents[c + 1])}
         IN {r.selected \o rest : r \in {x \in runs : ~x.stuck},
                                  rest \in InMemoryRaw(emb, cents, lbl, c + 1, k, q)}

\* the chunk sequences _select_chunks_kmeans can return without FAISS for
\* these vectors and centroids
InMemoryResults(cs, emb, cents, k, q) ==
    {Resolve(cs, RemoveDuplicates(raw)) :
        raw \in UNION {InMemoryRaw(emb, cents, lbl, 0, k, q) :
                          lbl \in KMeansLabelings(emb, cents)}}

\* every centre is a nearest centre of some point: no cluster need be empty
NoEmptyCluster(emb, cents) ==
    \E lbl \in KMeansLabelings(emb, cents) :
       \A c \in 0..(Len(cents) - 1) : Members(lbl, c) # {}

\* C7: for the same vectors, the same centroids (each with a cluster of its
\* own) and the same chunks_per_cluster, the selection made with use_faiss=True
\* is one the in-memory backend makes.
C7_BackendsEquivalent ==
    (pc = "done" /\ cfg.strategy = "kmeans" /\ cfg.use_faiss
        /\ NoEmptyCluster(embeddings, centroids))
    => result.selected_chunks
          \in InMemoryResults(chunks, embeddings, centroids, num_clusters,
                              cfg.chunks_per_cluster)

\* C8: a selector holding an invalid configuration value is rejected at
\* construction or at the start of the call: the call never gets past
\* split_text, let alone returns.
C8_InvalidConfigRejected ==
    pc \in {"embed", "select", "cluster", "for", "while", "dedup", "done"}
    => ValidConfig(cfg)

\* C9: the per-cluster selection loop terminates, and when it ends exactly
\* min(chunks_per_cluster, cluster size) distinct members are selected.
\* Termination is stated as progress: wherever the loop stands, a step that
\* changes the state is possible (an iteration that selects a member, or the
\* exit); an iteration depends on sorted_indices and selected alone, so one
\* that changes neither repeats for ever.
C9_LoopTerminates ==
    /\ pc = "while" => ENABLED <<WhileBody \/ WhileExit>>_vars
    /\ (pc \in {"for", "dedup"} /\ selected # <<>>)
       => /\ Len(selected) = Min2(cfg.chunks_per_cluster, Len(sorted_indices))
          /\ NoRepeats(selected)

\* C10: within a cluster the selection order is the closest member, then the
\* farthest, then the next farthest, walking inward from the tail with no
\* member skipped.
C10_WalkInward ==
    pc = "while"
    => \A j \in 1..Len(selected) :
          selected[j] = IF j = 1 THEN sorted_indices[1]
                        ELSE sorted_indices[Len(sorted_indices) - j + 2]

=============================================================================
